---- MODULE Spec2Model ----
(***************************************************************************)
(* Budget reconciliation and notification engine of the expense tracker    *)
(* API: the general-budget and category-budget routers, the threshold      *)
(* checks, the expired-budget sweep and the notification table.            *)
(*                                                                         *)
(* Tables are sequences of rows; a row's primary key is its index.  Query  *)
(* .first() returns the matching row with the lowest primary key and       *)
(* .all() returns rows in primary-key order.  Float amounts are modelled   *)
(* as integers, dates as day numbers.  A column declared nullable=False    *)
(* without a default rejects a row built without it (IntegrityError on     *)
(* commit), which rolls the pending transaction back.                      *)
(***************************************************************************)
EXTENDS Integers, Sequences, FiniteSets, TLC

\* ------------------------------------------------------------------ bounds
NumUsers == 2
NumCategories == 2
MaxDay == 2
MaxAmount == 2
MaxBudgets == 2
MaxCategoryBudgets == 2
MaxExpenses == 2
MaxNotifications == 3

Users == 1..NumUsers
Days == 1..MaxDay
Amounts == 1..MaxAmount
CategoryNames == 1..NumCategories

VARIABLES
    budgets,            \* table "budgets" (GeneralBudget rows)
    category_budgets,   \* table "category_budgets"
    expenses,           \* table "expenses"
    notifications,      \* table "notifications"
    users,              \* table "users": the primary keys of the registered users
    today,              \* datetime.now().date()
    response,           \* the outcome of the last status query or threshold check
    checking,           \* per thread, the check_budget run between its lookup and its insert
    started,            \* datetime.now() as evaluated when the models were imported
    group_members,      \* table group_members of the one group, in primary-key order
    group_expenses,     \* table group_expenses
    expense_splits,     \* table expense_splits
    debt_notifications, \* table debt_notifications
    expense_tasks,      \* what the latest request of the expenses router handed to BackgroundTasks
    setting,            \* POST /budget/ requests past their overlap query, not yet committed
    alerts,             \* table "alerts"
    group_debts,        \* table "group_debts"
    debt_categories     \* the users who own a category named "Group Debts"

\* The tables of the groups and debts routers.
group_vars == <<group_members, group_expenses, expense_splits, debt_notifications>>
debt_vars == <<group_debts, debt_categories>>

vars ==
    <<budgets, category_budgets, expenses, notifications, users, today, response, checking,
      started, group_members, group_expenses, expense_splits, debt_notifications, expense_tasks, setting, alerts, debt_vars>>

\* ------------------------------------------------------------------ rows
\* A deleted row keeps its primary key (keys are never reused) and matches no query.
GeneralBudget(u, a, s, e) ==
    [user_id |-> u, amount_limit |-> a, start_date |-> s, end_date |-> e,
     status |-> "active"]

DeletedBudget ==
    [user_id |-> 0, amount_limit |-> 0, start_date |-> 0, end_date |-> 0,
     status |-> "deleted"]

CategoryBudget(u, c, a, s, e) ==
    [user_id |-> u, category_id |-> c, amount_limit |-> a, start_date |-> s,
     end_date |-> e, status |-> "active"]

Expense(u, a, d, c) ==
    [user_id |-> u, amount |-> a, date |-> d, category_id |-> c]

\* Notification(...): is_read defaults to False; type has no default and may be
\* left out by the caller ("none"); created_at defaults to datetime.now(), a
\* value computed once, when the class body ran, and no caller passes another.
Notification(u, t, m) ==
    [user_id |-> u, type |-> t, message |-> m, is_read |-> FALSE,
     created_at |-> started]

\* A deleted notification keeps its primary key and matches no query.
DeletedNotification ==
    [user_id |-> 0, type |-> "deleted", message |-> <<>>, is_read |-> TRUE,
     created_at |-> 0]

\* The categories table: every user owns NumCategories categories, named
\* 1..NumCategories; the primary key is the index.
Category ==
    [i \in 1..(NumUsers * NumCategories) |->
        [user_id |-> ((i - 1) \div NumCategories) + 1,
         name |-> ((i - 1) % NumCategories) + 1]]

\* db.query(Category).filter(Category.user_id == user.id, Category.name == name).first()
\* 0 stands for None.
CategoryByName(u, name) ==
    LET hit == {i \in DOMAIN Category :
                    Category[i].user_id = u /\ Category[i].name = name}
    IN IF hit = {} THEN 0 ELSE CHOOSE i \in hit : \A j \in hit : i <= j

\* ------------------------------------------------------------------ helpers
Min(S) == CHOOSE x \in S : \A y \in S : x <= y

\* .first() over a set of matching primary keys; 0 stands for None.
First(S) == IF S = {} THEN 0 ELSE Min(S)

RECURSIVE SumSeq(_)
\* Python's sum(list): left to right.
SumSeq(s) == IF s = <<>> THEN 0 ELSE s[1] + SumSeq(Tail(s))

RECURSIVE SeqOfSet(_)
\* The elements of a set of primary keys in ascending order.
SeqOfSet(S) == IF S = {} THEN <<>> ELSE <<Min(S)>> \o SeqOfSet(S \ {Min(S)})

Abs(x) == IF x < 0 THEN 0 - x ELSE x

\* ------------------------------------------------------------------ queries
\* The active-budget query with the status filter left out.
BudgetsOfAnyStatus(u) ==
    {i \in DOMAIN budgets : budgets[i].user_id = u}

\* filter(user_id == u, status == "active")
ActiveBudgets(u) ==
    {i \in DOMAIN budgets :
        budgets[i].user_id = u /\ budgets[i].status = "active"}

\* The overlap test with a strict lower comparison (windows sharing only
\* their first day pass it).
OverlapsWindowStrict(row, s, e) == row.start_date < e /\ row.end_date >= s

\* filter(..., start_date <= end, end_date >= start): the overlap test of the routers
OverlapsWindow(row, s, e) == row.start_date <= e /\ row.end_date >= s

ActiveCategoryBudgets(u) ==
    {i \in DOMAIN category_budgets :
        category_budgets[i].user_id = u /\ category_budgets[i].status = "active"}

\* func.sum(CategoryBudget.amount_limit) over the user's active rows, or 0.0
TotalCategoryBudget(u) ==
    SumSeq([k \in 1..Cardinality(ActiveCategoryBudgets(u)) |->
              category_budgets[SeqOfSet(ActiveCategoryBudgets(u))[k]].amount_limit])

\* Notification.message.ilike("%budget%")
MentionsBudget(m) ==
    m[1] \in {"budget_exceeded", "category_budget_exceeded", "budget_deactivated"}

\* .update({"is_read": True}) on the user's unread notifications that mention "budget"
ResetBudgetNotifications(u) ==
    [i \in DOMAIN notifications |->
        IF /\ notifications[i].user_id = u
           /\ MentionsBudget(notifications[i].message)
           /\ notifications[i].is_read = FALSE
        THEN [notifications[i] EXCEPT !.is_read = TRUE]
        ELSE notifications[i]]

\* What the last status query answered or the last threshold check ended with:
\* status is the HTTP status of a query (0 for a background job); raised tells
\* whether a background job ended with an exception.
Response(op, u, status, remaining_amount, raised) ==
    [op |-> op, user |-> u, status |-> status,
     remaining_amount |-> remaining_amount, raised |-> raised]

\* No status query has been answered and no threshold check has run yet.
NoResponse == Response("none", 0, 0, 0, FALSE)

\* The threads that run check_budget: the job runner's worker (check_all_thresholds)
\* and the server's event loop (the background task queued by a request).
Threads == {"scheduler", "request"}

\* A thread with no check_budget run in progress.
NoCheck == [user |-> 0, message |-> <<>>]

\* An empty store with every user registered.
Init ==
    /\ users = Users
    /\ budgets = <<>>
    /\ category_budgets = <<>>
    /\ expenses = <<>>
    /\ notifications = <<>>
    /\ today = 1
    /\ response = NoResponse
    /\ checking = [t \in Threads |-> NoCheck]
    /\ started = 1
    /\ group_members = <<>>
    /\ group_expenses = <<>>
    /\ expense_splits = <<>>
    /\ debt_notifications = <<>>
    /\ expense_tasks = {}
    /\ setting = {}
    /\ alerts = <<>>
    /\ group_debts = <<>>
    /\ debt_categories = {}

\* An empty store with one registered user.
InitOneUser ==
    /\ users = {1}
    /\ budgets = <<>>
    /\ category_budgets = <<>>
    /\ expenses = <<>>
    /\ notifications = <<>>
    /\ today = 1
    /\ response = NoResponse
    /\ checking = [t \in Threads |-> NoCheck]
    /\ started = 1
    /\ group_members = <<>>
    /\ group_expenses = <<>>
    /\ expense_splits = <<>>
    /\ debt_notifications = <<>>
    /\ expense_tasks = {}
    /\ setting = {}
    /\ alerts = <<>>
    /\ group_debts = <<>>
    /\ debt_categories = {}

\* ------------------------------------------------------------------ general budgets
\* POST /budget/.  The handler also queues check_budget(user) and the expiry sweep
\* as background tasks; they run after the response and are the actions
\* check_budget and check_and_deactivate_expired_budgets below.
set_general_budget(u, a, s, e) ==
    LET existing_budget ==
            First({i \in ActiveBudgets(u) : OverlapsWindow(budgets[i], s, e)})
        total_category_budget == TotalCategoryBudget(u)
    IN  /\ Len(budgets) < MaxBudgets
        /\ IF existing_budget # 0
           THEN UNCHANGED budgets   \* HTTP 400
           ELSE IF a < total_category_budget
           THEN UNCHANGED budgets   \* HTTP 403
           ELSE /\ budgets' = Append(budgets, GeneralBudget(u, a, s, e))
        /\ UNCHANGED <<category_budgets, expenses, notifications, users, today, response, checking, started, group_vars, expense_tasks, setting, alerts, debt_vars>>

\* PUT /budget/.  GeneralBudgetUpdate requires amount_limit, start_date and end_date.
update_general_budget(u, a, s, e) ==
    LET budget == First(ActiveBudgets(u))
        conflicting_budget ==
            First({i \in ActiveBudgets(u) :
                      i # budget /\ OverlapsWindow(budgets[i], s, e)})
    IN  /\ IF budget = 0
           THEN UNCHANGED <<budgets, notifications>>   \* HTTP 404
           ELSE IF conflicting_budget # 0
           THEN UNCHANGED <<budgets, notifications>>   \* HTTP 400
           ELSE /\ notifications' = ResetBudgetNotifications(u)
                /\ budgets' = [budgets EXCEPT ![budget] =
                                  [@ EXCEPT !.amount_limit = a,
                                            !.start_date = s,
                                            !.end_date = e]]
        /\ UNCHANGED <<category_budgets, expenses, users, today, response, checking, started, group_vars, expense_tasks, setting, alerts, debt_vars>>

\* POST /budget/deactivate
deactivate_general_budget(u) ==
    LET budget == First(ActiveBudgets(u))
    IN  /\ IF budget = 0
           THEN UNCHANGED <<budgets, notifications>>   \* HTTP 404
           ELSE /\ notifications' = ResetBudgetNotifications(u)
                /\ budgets' = [budgets EXCEPT ![budget].status = "deactivated"]
        /\ UNCHANGED <<category_budgets, expenses, users, today, response, checking, started, group_vars, expense_tasks, setting, alerts, debt_vars>>

\* DELETE /budget/{budget_id}
delete_general_budget(u, budget_id) ==
    LET budget == First({i \in DOMAIN budgets :
                            budgets[i].user_id = u /\ i = budget_id})
    IN  /\ IF budget = 0
           THEN UNCHANGED <<budgets, notifications>>   \* HTTP 404
           ELSE IF budgets[budget].status # "active"
           THEN UNCHANGED <<budgets, notifications>>   \* HTTP 400
           ELSE /\ notifications' = ResetBudgetNotifications(u)
                /\ budgets' = [budgets EXCEPT ![budget] = DeletedBudget]
        /\ UNCHANGED <<category_budgets, expenses, users, today, response, checking, started, group_vars, expense_tasks, setting, alerts, debt_vars>>

\* The calendar: datetime.now().date() advances.
AdvanceDay ==
    /\ today <= MaxDay
    /\ today' = today + 1
    /\ UNCHANGED <<budgets, category_budgets, expenses, notifications, users, response, checking, started, group_vars, expense_tasks, setting, alerts, debt_vars>>

\* ------------------------------------------------------------------ notifications
\* notifications.type is declared nullable=False with no default: a row built
\* without a type violates the constraint when the session commits.
TypeNotNull(row) == row.type # "none"

\* The unread-duplicate lookup taken over the read rows.
ExistingNotificationRead(ns, u, m) ==
    First({i \in DOMAIN ns :
              ns[i].user_id = u /\ ns[i].message = m /\ ns[i].is_read = TRUE})

\* filter(user_id == u, message == m, is_read == False).first(); 0 stands for None.
ExistingNotification(ns, u, m) ==
    First({i \in DOMAIN ns :
              ns[i].user_id = u /\ ns[i].message = m /\ ns[i].is_read = FALSE})

\* send_notification writing the row as already read.
send_notification_as_read(ns, u, t, m) ==
    Append(ns, [Notification(u, t, m) EXCEPT !.is_read = TRUE])

\* utils.send_notification: Notification(user_id, type, message); db.add; db.commit
send_notification(ns, u, t, m) == Append(ns, Notification(u, t, m))

\* The handler writing the opposite of the flag it finds.
mark_notification_toggled(u, notification_id) ==
    LET notification == First({i \in DOMAIN notifications :
                                  i = notification_id /\ notifications[i].user_id = u})
    IN  /\ IF notification = 0
           THEN UNCHANGED notifications   \* HTTP 404
           ELSE /\ notifications' =
                       [notifications EXCEPT ![notification].is_read = ~@]
        /\ UNCHANGED <<budgets, category_budgets, expenses, users, today, response, checking,
                       started, group_vars, expense_tasks, setting, alerts, debt_vars>>

\* PUT /notifications/{notification_id}/mark-as-read
mark_notification_as_read(u, notification_id) ==
    LET notification == First({i \in DOMAIN notifications :
                                  i = notification_id /\ notifications[i].user_id = u})
    IN  /\ IF notification = 0
           THEN UNCHANGED notifications   \* HTTP 404
           ELSE /\ notifications' = [notifications EXCEPT ![notification].is_read = TRUE]
        /\ UNCHANGED <<budgets, category_budgets, expenses, users, today, response, checking, started, group_vars, expense_tasks, setting, alerts, debt_vars>>

\* ------------------------------------------------------------------ expiry sweep
\* The loop of check_and_deactivate_expired_budgets over the rows fetched at its
\* start (ids, in primary-key order), from position k on.  Each deactivation is
\* committed before the notification is built; the notification is built without a
\* type, so its commit raises and the exception leaves the loop.
RECURSIVE SweepLoop(_, _, _, _)
SweepLoop(ids, k, bs, ns) ==
    IF k > Len(ids)
    THEN [budgets |-> bs, notifications |-> ns, raised |-> FALSE]
    ELSE LET i == ids[k]
             message == <<"budget_deactivated", i, 0>>
             notification == Notification(bs[i].user_id, "none", message)
             deactivated == [bs EXCEPT ![i].status = "deactivated"]
         IN  IF bs[i].end_date < today
             THEN IF ExistingNotification(ns, bs[i].user_id, message) # 0
                  THEN SweepLoop(ids, k + 1, deactivated, ns)
                  ELSE IF TypeNotNull(notification)
                  THEN SweepLoop(ids, k + 1, deactivated, Append(ns, notification))
                  ELSE [budgets |-> deactivated, notifications |-> ns, raised |-> TRUE]
             ELSE SweepLoop(ids, k + 1, bs, ns)

\* The periodic job (and background task) check_and_deactivate_expired_budgets.
check_and_deactivate_expired_budgets ==
    LET ids == SeqOfSet({i \in DOMAIN budgets : budgets[i].status = "active"})
        run == SweepLoop(ids, 1, budgets, notifications)
    IN  /\ Len(run.notifications) <= MaxNotifications
        /\ budgets' = run.budgets
        /\ notifications' = run.notifications
        /\ UNCHANGED <<category_budgets, expenses, users, today, response, checking, started, group_vars, expense_tasks, setting, alerts, debt_vars>>

\* ------------------------------------------------------------------ category budgets
\* POST /category_budgets/.  The handler compares no sum with the general budget.
create_category_budget(u, name, a, s, e) ==
    LET category == CategoryByName(u, name)
        existing_budget ==
            First({i \in ActiveCategoryBudgets(u) :
                      /\ category_budgets[i].category_id = category
                      /\ OverlapsWindow(category_budgets[i], s, e)})
    IN  /\ Len(category_budgets) < MaxCategoryBudgets
        /\ IF category = 0
           THEN UNCHANGED category_budgets   \* HTTP 404
           ELSE IF existing_budget # 0
           THEN UNCHANGED category_budgets   \* HTTP 400
           ELSE /\ category_budgets' =
                       Append(category_budgets, CategoryBudget(u, category, a, s, e))
        /\ UNCHANGED <<budgets, expenses, notifications, users, today, response, checking, started, group_vars, expense_tasks, setting, alerts, debt_vars>>

\* The user's first active budget of a category; 0 stands for None.
ActiveCategoryBudget(u, category) ==
    First({i \in ActiveCategoryBudgets(u) : category_budgets[i].category_id = category})

\* PUT /category_budgets/{category_name}.  CategoryBudgetUpdate's fields are optional
\* and model_dump(exclude_unset=True) keeps the ones sent; 0 stands for a field
\* that was not sent.
modify_category_budget(u, name, a, s, e) ==
    LET category == CategoryByName(u, name)
        budget == ActiveCategoryBudget(u, category)
    IN  /\ IF category = 0 \/ budget = 0
           THEN UNCHANGED category_budgets   \* HTTP 404
           ELSE /\ category_budgets' = [category_budgets EXCEPT ![budget] =
                       [@ EXCEPT !.amount_limit = IF a = 0 THEN @ ELSE a,
                                 !.start_date = IF s = 0 THEN @ ELSE s,
                                 !.end_date = IF e = 0 THEN @ ELSE e]]
        /\ UNCHANGED <<budgets, expenses, notifications, users, today, response, checking, started, group_vars, expense_tasks, setting, alerts, debt_vars>>

\* POST /category_budgets/{category_name}/deactivate
deactivate_category_budget(u, name) ==
    LET category == CategoryByName(u, name)
        budget == ActiveCategoryBudget(u, category)
    IN  /\ IF category = 0 \/ budget = 0
           THEN UNCHANGED category_budgets   \* HTTP 404
           ELSE /\ category_budgets' =
                       [category_budgets EXCEPT ![budget].status = "deactivated"]
        /\ UNCHANGED <<budgets, expenses, notifications, users, today, response, checking, started, group_vars, expense_tasks, setting, alerts, debt_vars>>

\* ------------------------------------------------------------------ expenses
\* db.query(Category).filter(Category.name == name).first(): the lookup of
\* create_expense does not filter by user.  0 stands for None.
CategoryOfAnyUserByName(name) ==
    First({i \in DOMAIN Category : Category[i].name = name})

\* POST /expenses/.  After the commit the handler hands two tasks of the alerts
\* router to BackgroundTasks: its legacy check_budget and check_thresholds.
create_expense(u, a, d, name) ==
    LET category_id == CategoryOfAnyUserByName(name)
    IN  /\ Len(expenses) < MaxExpenses
        /\ IF category_id = 0
           THEN /\ UNCHANGED expenses   \* HTTP 404
                /\ expense_tasks' = {}
           ELSE /\ expenses' = Append(expenses, Expense(u, a, d, category_id))
                /\ expense_tasks' = {<<"alerts.check_budget", u>>, <<"alerts.check_thresholds", u>>}
        /\ UNCHANGED <<budgets, category_budgets, notifications, users, today, response, checking,
                       started, group_vars, setting, alerts, debt_vars>>

\* ------------------------------------------------------------------ remaining amount
\* budget.owner.expenses: the expenses of the budget's owner, in primary-key order.
OwnerExpenses(exps, u) == SelectSeq(exps, LAMBDA x : x.user_id = u)

\* The window test with the first day of the window left out.
InWindowStrict(budget, expense) ==
    budget.start_date < expense.date /\ expense.date <= budget.end_date

\* budget.start_date <= expense.date <= budget.end_date
InWindow(budget, expense) ==
    budget.start_date <= expense.date /\ expense.date <= budget.end_date

\* [expense.amount for expense in budget.owner.expenses if <in window>]
WindowAmounts(budget, exps) ==
    LET matching == SelectSeq(OwnerExpenses(exps, budget.user_id),
                              LAMBDA x : InWindow(budget, x))
    IN  [k \in 1..Len(matching) |-> matching[k].amount]

\* remaining_amount = budget.amount_limit - sum(expenses)
RemainingAmount(budget, exps) == budget.amount_limit - SumSeq(WindowAmounts(budget, exps))

\* GET /budget/status
get_general_budget_status(u) ==
    LET budget == First(ActiveBudgets(u))
    IN  /\ IF budget = 0
           THEN response' = Response("get_general_budget_status", u, 404, 0, FALSE)
           ELSE response' = Response("get_general_budget_status", u, 200,
                                     RemainingAmount(budgets[budget], expenses), FALSE)
        /\ UNCHANGED <<budgets, category_budgets, expenses, notifications, users, today, checking, started, group_vars, expense_tasks, setting, alerts, debt_vars>>

\* ------------------------------------------------------------------ threshold checks
\* if remaining_amount < 0
Exceeded(remaining_amount) == remaining_amount < 0

\* f"You've exceeded your budget of {budget.amount_limit} by {abs(remaining_amount)}."
BudgetExceededMessage(amount_limit, remaining_amount) ==
    <<"budget_exceeded", amount_limit, Abs(remaining_amount)>>

\* check_budget with a duplicate lookup that counts read rows too.
CheckBudgetFromAnyRow(ns, u) ==
    LET budget == First(ActiveBudgets(u))
        remaining_amount == RemainingAmount(budgets[budget], expenses)
        message == BudgetExceededMessage(budgets[budget].amount_limit, remaining_amount)
    IN  IF budget = 0
        THEN ns
        ELSE IF /\ Exceeded(remaining_amount)
                /\ ExistingNotification(ns, u, message) = 0
                /\ ExistingNotificationRead(ns, u, message) = 0
        THEN send_notification(ns, u, "ALERT", message)
        ELSE ns

\* The notifications table after check_budget(u) of the background jobs
\* (threshold_checks.py) has run on the table ns; it writes through
\* send_notification with type ALERT.
CheckBudgetFrom(ns, u) ==
    LET budget == First(ActiveBudgets(u))
        remaining_amount == RemainingAmount(budgets[budget], expenses)
        message == BudgetExceededMessage(budgets[budget].amount_limit, remaining_amount)
    IN  IF budget = 0
        THEN ns
        ELSE IF Exceeded(remaining_amount) /\ ExistingNotification(ns, u, message) = 0
        THEN send_notification(ns, u, "ALERT", message)
        ELSE ns

CheckBudgetRun(u) == CheckBudgetFrom(notifications, u)

check_budget(u) ==
    /\ Len(CheckBudgetRun(u)) <= MaxNotifications
    /\ notifications' = CheckBudgetRun(u)
    /\ response' = Response("check_budget", u, 0, 0, FALSE)
    /\ UNCHANGED <<budgets, category_budgets, expenses, users, today, checking, started, group_vars, expense_tasks, setting, alerts, debt_vars>>

\* check_budget(u) on thread t up to its lookup of an unread duplicate, for a run
\* that found none and goes on to insert: the message is held in a local variable.
\* A run that has nothing to insert is check_budget(u), in one step.
check_budget_lookup(t, u) ==
    LET budget == First(ActiveBudgets(u))
        remaining_amount == RemainingAmount(budgets[budget], expenses)
        message == BudgetExceededMessage(budgets[budget].amount_limit, remaining_amount)
    IN  /\ checking[t] = NoCheck
        /\ budget # 0
        /\ Exceeded(remaining_amount)
        /\ ExistingNotification(notifications, u, message) = 0
        /\ checking' = [checking EXCEPT ![t] = [user |-> u, message |-> message]]
        /\ UNCHANGED <<budgets, category_budgets, expenses, notifications, users, today,
                       response, started, group_vars, expense_tasks, setting, alerts, debt_vars>>

\* The insert under a uniqueness constraint on unread (user, message): a row that
\* would repeat an unread one is not written.
check_budget_insert_unique(t) ==
    /\ checking[t] # NoCheck
    /\ Len(notifications) < MaxNotifications
    /\ notifications' =
          IF ExistingNotification(notifications, checking[t].user, checking[t].message) = 0
          THEN send_notification(notifications, checking[t].user, "ALERT", checking[t].message)
          ELSE notifications
    /\ response' = Response("check_budget", checking[t].user, 0, 0, FALSE)
    /\ checking' = [checking EXCEPT ![t] = NoCheck]
    /\ UNCHANGED <<budgets, category_budgets, expenses, users, today, started, group_vars,
                   expense_tasks, setting, alerts, debt_vars>>

\* The rest of that run: send_notification with the message built before the lookup.
check_budget_insert(t) ==
    /\ checking[t] # NoCheck
    /\ Len(notifications) < MaxNotifications
    /\ notifications' =
          send_notification(notifications, checking[t].user, "ALERT", checking[t].message)
    /\ response' = Response("check_budget", checking[t].user, 0, 0, FALSE)
    /\ checking' = [checking EXCEPT ![t] = NoCheck]
    /\ UNCHANGED <<budgets, category_budgets, expenses, users, today, started, group_vars, expense_tasks, setting, alerts, debt_vars>>

\* Whether check_budget(u) of the alerts router reaches its insert.
AlertsCheckBudgetInserts(u) ==
    LET budget == First(ActiveBudgets(u))
        remaining_amount == RemainingAmount(budgets[budget], expenses)
        message == BudgetExceededMessage(budgets[budget].amount_limit, remaining_amount)
    IN  /\ budget # 0
        /\ Exceeded(remaining_amount)
        /\ ExistingNotification(notifications, u, message) = 0

\* The notifications table after check_budget(u) of the alerts router, which builds
\* Notification(user_id, message) without a type: the commit raises and the
\* session is closed with nothing written.
AlertsCheckBudgetRun(u) ==
    LET budget == First(ActiveBudgets(u))
        remaining_amount == RemainingAmount(budgets[budget], expenses)
        message == BudgetExceededMessage(budgets[budget].amount_limit, remaining_amount)
        notification == Notification(u, "none", message)
    IN  IF AlertsCheckBudgetInserts(u) /\ TypeNotNull(notification)
        THEN Append(notifications, notification)
        ELSE notifications

alerts_check_budget(u) ==
    /\ Len(AlertsCheckBudgetRun(u)) <= MaxNotifications
    /\ notifications' = AlertsCheckBudgetRun(u)
    /\ response' = Response("alerts_check_budget", u, 0, 0,
                            AlertsCheckBudgetInserts(u)
                            /\ ~TypeNotNull(Notification(u, "none", <<>>)))
    /\ UNCHANGED <<budgets, category_budgets, expenses, users, today, checking, started, group_vars, expense_tasks, setting, alerts, debt_vars>>

\* categories = {budget.category_id: budget for budget in active_budgets}: the
\* last active budget (highest primary key) of each category wins.
CategoriesDict(u) ==
    [c \in {category_budgets[i].category_id : i \in ActiveCategoryBudgets(u)} |->
        CHOOSE i \in ActiveCategoryBudgets(u) :
            /\ category_budgets[i].category_id = c
            /\ \A j \in ActiveCategoryBudgets(u) :
                   category_budgets[j].category_id = c => j <= i]

\* The user's expenses whose category is a key of the dict, whatever their date.
CategoryExpenses(u) ==
    SelectSeq(expenses, LAMBDA x : x.user_id = u /\ x.category_id \in DOMAIN CategoriesDict(u))

\* category_totals[category_id]: the amounts of that category, added in query order.
CategoryTotal(u, c) ==
    LET matching == SelectSeq(CategoryExpenses(u), LAMBDA x : x.category_id = c)
    IN  SumSeq([k \in 1..Len(matching) |-> matching[k].amount])

RECURSIVE DictOrder(_)
\* The keys of category_totals in insertion order (first expense of each category).
DictOrder(exps) ==
    IF exps = <<>> THEN <<>>
    ELSE <<exps[1].category_id>> \o
         DictOrder(SelectSeq(Tail(exps), LAMBDA x : x.category_id # exps[1].category_id))

\* category.name if category else "Unknown Category" (0), looked up with the user's id
CategoryName(u, category_id) ==
    IF category_id \in DOMAIN Category /\ Category[category_id].user_id = u
    THEN Category[category_id].name ELSE 0

\* f"You've exceeded your budget for category '{name}' by {exceed_amount:.2f}.
\*   Your limit was {budget.amount_limit}."
CategoryExceededMessage(category_name, exceed_amount, amount_limit) ==
    <<"category_budget_exceeded", category_name, exceed_amount, amount_limit>>

RECURSIVE CategoryLoop(_, _, _)
\* for category_id, total_expense in category_totals.items(): ...
CategoryLoop(u, keys, ns) ==
    IF keys = <<>> THEN ns
    ELSE LET budget == category_budgets[CategoriesDict(u)[keys[1]]]
             remaining_budget == budget.amount_limit - CategoryTotal(u, keys[1])
             message == CategoryExceededMessage(CategoryName(u, budget.category_id),
                                                Abs(remaining_budget), budget.amount_limit)
         IN  IF Exceeded(remaining_budget) /\ ExistingNotification(ns, u, message) = 0
             THEN CategoryLoop(u, Tail(keys), send_notification(ns, u, "ALERT", message))
             ELSE CategoryLoop(u, Tail(keys), ns)

\* The notifications table after check_category_budget(u) of the background jobs
\* has run on the table ns.
CheckCategoryBudgetFrom(ns, u) ==
    IF ActiveCategoryBudgets(u) = {}
    THEN ns
    ELSE CategoryLoop(u, DictOrder(CategoryExpenses(u)), ns)

CheckCategoryBudgetRun(u) == CheckCategoryBudgetFrom(notifications, u)

check_category_budget(u) ==
    /\ Len(CheckCategoryBudgetRun(u)) <= MaxNotifications
    /\ notifications' = CheckCategoryBudgetRun(u)
    /\ response' = Response("check_category_budget", u, 0, 0, FALSE)
    /\ UNCHANGED <<budgets, category_budgets, expenses, users, today, checking, started, group_vars, expense_tasks, setting, alerts, debt_vars>>

\* ------------------------------------------------------------------ specifications
\* The general-budget router, the expiry sweep and the calendar.
NextGeneral ==
    \/ \E u \in users, a \in Amounts, s \in Days, e \in Days : set_general_budget(u, a, s, e)
    \/ \E u \in users, a \in Amounts, s \in Days, e \in Days : update_general_budget(u, a, s, e)
    \/ \E u \in users : deactivate_general_budget(u)
    \/ \E u \in users, b \in 1..MaxBudgets : delete_general_budget(u, b)
    \/ check_and_deactivate_expired_budgets
    \/ AdvanceDay

SpecGeneral == Init /\ [][NextGeneral]_vars

\* The general-budget and category-budget routers.  The general budget spans
\* the whole calendar here (NextGeneral varies its window); the category budgets
\* take every window.
NextBudgets ==
    \/ \E u \in users, a \in Amounts : set_general_budget(u, a, 1, MaxDay)
    \/ \E u \in users, a \in Amounts : update_general_budget(u, a, 1, MaxDay)
    \/ \E u \in users : deactivate_general_budget(u)
    \/ \E u \in users, name \in 1..(NumCategories + 1), a \in Amounts, s \in Days, e \in Days :
          create_category_budget(u, name, a, s, e)
    \/ \E u \in users, name \in 1..(NumCategories + 1), a \in 0..MaxAmount,
          s \in 0..MaxDay, e \in 0..MaxDay :
          modify_category_budget(u, name, a, s, e)
    \/ \E u \in users, name \in 1..(NumCategories + 1) : deactivate_category_budget(u, name)

SpecBudgets == InitOneUser /\ [][NextBudgets]_vars

\* Budgets, expenses and the status query, for two users.
NextStatus ==
    \/ \E u \in users, a \in Amounts, s \in Days, e \in Days : set_general_budget(u, a, s, e)
    \/ \E u \in users : deactivate_general_budget(u)
    \/ \E u \in users, a \in Amounts, d \in Days, name \in {1, NumCategories + 1} :
          create_expense(u, a, d, name)
    \/ \E u \in users : get_general_budget_status(u)

SpecStatus == Init /\ [][NextStatus]_vars

\* General budgets, expenses and the two check_budget jobs of one user.
NextChecks ==
    \/ \E u \in users, a \in Amounts, s \in Days, e \in Days : set_general_budget(u, a, s, e)
    \/ \E u \in users, a \in Amounts, d \in Days : create_expense(u, a, d, 1)
    \/ \E u \in users : check_budget(u)
    \/ \E u \in users : alerts_check_budget(u)
    \/ \E u \in users, n \in 1..MaxNotifications : mark_notification_as_read(u, n)

SpecChecks == InitOneUser /\ [][NextChecks]_vars

\* Both threshold checks of the background jobs, run again and again for one
\* user.  Budgets span the whole calendar: check_category_budget does not read
\* the dates, and every expense falls in the window of the general budget.
NextRepeat ==
    \/ \E u \in users, a \in Amounts : set_general_budget(u, a, 1, MaxDay)
    \/ \E u \in users, name \in CategoryNames, a \in Amounts :
          create_category_budget(u, name, a, 1, MaxDay)
    \/ \E u \in users, a \in Amounts, name \in CategoryNames : create_expense(u, a, 1, name)
    \/ \E u \in users : check_budget(u)
    \/ \E u \in users : check_category_budget(u)
    \/ \E u \in users, n \in 1..MaxNotifications : mark_notification_as_read(u, n)

SpecRepeat == InitOneUser /\ [][NextRepeat]_vars

\* The check_budget job of one user run by two threads, each run either in one
\* step or split at its lookup, next to the requests and the sweep that change
\* what it reads.
NextRace ==
    \/ \E u \in users, a \in Amounts : set_general_budget(u, a, 1, MaxDay)
    \/ \E u \in users, a \in Amounts : create_expense(u, a, 1, 1)
    \/ \E u \in users : check_budget(u)
    \/ \E t \in Threads, u \in users : check_budget_lookup(t, u)
    \/ \E t \in Threads : check_budget_insert(t)
    \/ \E u \in users, n \in 1..MaxNotifications : mark_notification_as_read(u, n)
    \/ check_and_deactivate_expired_budgets
    \/ AdvanceDay

SpecRace == InitOneUser /\ [][NextRace]_vars

\* Every operation that writes a budget's status or fields, for one user: the
\* two budget routers, the expiry sweep and the calendar.  Category budgets are
\* those of one category, created with limit 1.
NextLifecycle ==
    \/ \E u \in users, a \in Amounts, s \in Days, e \in Days : set_general_budget(u, a, s, e)
    \/ \E u \in users, a \in Amounts, s \in Days, e \in Days : update_general_budget(u, a, s, e)
    \/ \E u \in users : deactivate_general_budget(u)
    \/ \E u \in users, b \in 1..MaxBudgets : delete_general_budget(u, b)
    \/ check_and_deactivate_expired_budgets
    \/ AdvanceDay
    \/ \E u \in users, s \in Days, e \in Days : create_category_budget(u, 1, 1, s, e)
    \/ \E u \in users, a \in {0, MaxAmount}, s \in 0..MaxDay, e \in 0..MaxDay :
          modify_category_budget(u, 1, a, s, e)
    \/ \E u \in users : deactivate_category_budget(u, 1)

SpecLifecycle == InitOneUser /\ [][NextLifecycle]_vars

\* ------------------------------------------------------------------ retention
\* timedelta(days=30) in delete_old_notifications
RetentionDays == 30

\* The last day the calendar of the retention runs reaches.
Horizon == MaxDay + RetentionDays

\* The calendar moves on by n days at once.
PassDays(n) ==
    /\ today + n <= Horizon
    /\ today' = today + n
    /\ UNCHANGED <<budgets, category_budgets, expenses, notifications, users, response, checking,
                   started, group_vars, expense_tasks, setting, alerts, debt_vars>>

\* The server process starts again: the models are imported anew, and the default
\* of Notification.created_at is the datetime.now() of that moment.
restart ==
    /\ started # today
    /\ started' = today
    /\ checking' = [t \in Threads |-> NoCheck]
    /\ UNCHANGED <<budgets, category_budgets, expenses, notifications, users, today, response,
                   group_vars, expense_tasks, setting, alerts, debt_vars>>

ExpiredAndRead(row, now) == row.created_at < now - RetentionDays /\ row.is_read
\* Notification.created_at < threshold_date, threshold_date = now - 30 days
Expired(row, now) == row.created_at < now - RetentionDays

\* main.delete_old_notifications (daily job): one bulk DELETE and a commit.
delete_old_notifications ==
    /\ notifications' =
           [i \in DOMAIN notifications |->
               IF notifications[i] # DeletedNotification /\ Expired(notifications[i], today)
               THEN DeletedNotification
               ELSE notifications[i]]
    /\ response' = Response("delete_old_notifications", 0, 0, 0, FALSE)
    /\ UNCHANGED <<budgets, category_budgets, expenses, users, today, checking, started, group_vars, expense_tasks, setting, alerts, debt_vars>>

\* Notifications of one user, their reading, process restarts and the retention job.
NextRetention ==
    \/ \E u \in users : set_general_budget(u, 1, 1, MaxDay)
    \/ \E u \in users : create_expense(u, MaxAmount, 1, 1)
    \/ \E u \in users : check_budget(u)
    \/ \E u \in users, n \in 1..MaxNotifications : mark_notification_as_read(u, n)
    \/ AdvanceDay
    \/ PassDays(RetentionDays - 1)
    \/ restart
    \/ delete_old_notifications

SpecRetention == InitOneUser /\ [][NextRetention]_vars

\* ------------------------------------------------------------------ groups
MaxSplits == 2
MaxGroupExpenses == 2

\* GroupMember(user_id, group_id, role, status): the model has one group, id 1.
GroupMember(u, role, status) ==
    [user_id |-> u, group_id |-> 1, role |-> role, status |-> status]

\* GroupExpense(group_id, payer_id, amount, description)
GroupExpense(payer, amount) == [group_id |-> 1, payer_id |-> payer, amount |-> amount]

\* ExpenseSplit(expense_id, user_id, amount)
ExpenseSplit(expense_id, u, amount) ==
    [expense_id |-> expense_id, user_id |-> u, amount |-> amount]

\* DebtNotification(amount, description, debtor_id, creditor_id); status defaults
\* to False, which is both PENDING and REJECTED.
DebtNotification(amount, debtor, creditor) ==
    [amount |-> amount, debtor_id |-> debtor, creditor_id |-> creditor, status |-> FALSE]

\* The request body `splits`: ExpenseSplitCreate(user_id, amount), one to MaxSplits of them.
SplitInputs ==
    UNION {[1..n -> [user_id : Users, amount : Amounts]] : n \in 1..MaxSplits}

\* db.query(GroupMember).filter(user_id, group_id, status == "active").first()
ActiveMember(u) ==
    First({i \in DOMAIN group_members :
              group_members[i].user_id = u /\ group_members[i].status = "active"})

\* "You owe '<payer>' <amount> for '<description>'"
YouOweMessage(payer, amount) == <<"you_owe", payer, amount>>

\* The rows the split loop adds to the session for the splits of other users.
OthersSplits(u, splits) == SelectSeq(splits, LAMBDA s : s.user_id # u)

\* A store with the group of user 1 (its admin) and user 2 invited to it: the
\* state after create_group by user 1 and add_member for user 2.
InitGroup ==
    /\ users = Users
    /\ budgets = <<>>
    /\ category_budgets = <<>>
    /\ expenses = <<>>
    /\ notifications = <<>>
    /\ today = 1
    /\ response = NoResponse
    /\ checking = [t \in Threads |-> NoCheck]
    /\ started = 1
    /\ group_members = <<GroupMember(1, "admin", "active"), GroupMember(2, "member", "pending")>>
    /\ group_expenses = <<>>
    /\ expense_splits = <<>>
    /\ debt_notifications = <<>>
    /\ expense_tasks = {}
    /\ setting = {}
    /\ alerts = <<>>
    /\ group_debts = <<>>
    /\ debt_categories = {}

\* PUT /groups/members/{member_id}: the invited user accepts or rejects.
update_member_status(u, member_id, accepted) ==
    LET member == First({i \in DOMAIN group_members : i = member_id})
    IN  /\ IF member = 0 \/ group_members[member_id].status # "pending"
           THEN UNCHANGED group_members   \* HTTP 404
           ELSE IF group_members[member].user_id # u
           THEN UNCHANGED group_members   \* HTTP 403
           ELSE group_members' =
                    [group_members EXCEPT
                        ![member].status = IF accepted THEN "active" ELSE "rejected"]
        /\ UNCHANGED <<budgets, category_budgets, expenses, notifications, users, today, response,
                       checking, started, group_expenses, expense_splits, debt_notifications,
                       expense_tasks, setting, alerts, debt_vars>>

\* POST /groups/{group_id}/expenses.  The GroupExpense row is committed before the
\* splits are validated.  The loop adds one ExpenseSplit per split and, for a split
\* of another user, a DebtNotification and a Notification built without a type;
\* the one commit after the loop writes them all or, when a row violates a
\* constraint, none of them.  The session flushes only on commit.
create_and_split_group_expense(u, amount, splits) ==
    LET member == ActiveMember(u)
        new_expense == Len(group_expenses) + 1
        total_split_amount == SumSeq([k \in DOMAIN splits |-> splits[k].amount])
        others == OthersSplits(u, splits)
        new_splits ==
            [k \in DOMAIN splits |->
                ExpenseSplit(new_expense, splits[k].user_id, splits[k].amount)]
        new_debts ==
            [k \in DOMAIN others |-> DebtNotification(others[k].amount, others[k].user_id, u)]
        new_notifications ==
            [k \in DOMAIN others |->
                Notification(others[k].user_id, "none", YouOweMessage(u, others[k].amount))]
        op == "create_and_split_group_expense"
    IN  /\ Len(group_expenses) < MaxGroupExpenses
        /\ IF member = 0
           THEN /\ response' = Response(op, u, 403, 0, FALSE)
                /\ UNCHANGED <<group_expenses, expense_splits, debt_notifications, notifications>>
           ELSE /\ group_expenses' = Append(group_expenses, GroupExpense(u, amount))
                /\ IF total_split_amount # amount
                   THEN /\ response' = Response(op, u, 400, 0, FALSE)
                        /\ UNCHANGED <<expense_splits, debt_notifications, notifications>>
                   ELSE IF \E k \in DOMAIN splits : ActiveMember(splits[k].user_id) = 0
                   THEN /\ response' = Response(op, u, 400, 0, FALSE)
                        /\ UNCHANGED <<expense_splits, debt_notifications, notifications>>
                   ELSE IF \E k \in DOMAIN new_notifications : ~TypeNotNull(new_notifications[k])
                   THEN /\ response' = Response(op, u, 500, 0, TRUE)   \* IntegrityError
                        /\ UNCHANGED <<expense_splits, debt_notifications, notifications>>
                   ELSE /\ response' = Response(op, u, 200, 0, FALSE)
                        /\ expense_splits' = expense_splits \o new_splits
                        /\ debt_notifications' = debt_notifications \o new_debts
                        /\ notifications' = notifications \o new_notifications
        /\ UNCHANGED <<budgets, category_budgets, expenses, users, today, checking, started,
                       group_members, expense_tasks, setting, alerts, debt_vars>>

\* One group, its admin and an invited user, and the expenses they split.
NextSplit ==
    \/ \E u \in users, m \in 1..NumUsers, accepted \in BOOLEAN : update_member_status(u, m, accepted)
    \/ \E u \in users, a \in Amounts, splits \in SplitInputs :
          create_and_split_group_expense(u, a, splits)

SpecSplit == InitGroup /\ [][NextSplit]_vars

\* ------------------------------------------------------------------ debts
MaxDebtNotifications == 2

\* The category named "Debt", which register_user creates first for every user.
DebtName == 1

\* expenses.date is declared nullable=False with no default; 0 stands for a row
\* built without a date.
DateNotNull(row) == row.date # 0

\* The request parameter debtor_ids: a list of up to two user ids.
DebtorIds == UNION {[1..n -> Users] : n \in 0..2}

\* POST /debts/send_debt_notification/.  One commit after the loop: a request that
\* names the sender among the debtors adds nothing.
send_debt_notification(u, amount, debtor_ids) ==
    LET op == "send_debt_notification"
        new_debts ==
            [k \in DOMAIN debtor_ids |-> DebtNotification(amount, debtor_ids[k], u)]
    IN  /\ Len(debt_notifications) + Len(debtor_ids) <= MaxDebtNotifications
        /\ IF debtor_ids = <<>> \/ \E k \in DOMAIN debtor_ids : debtor_ids[k] = u
           THEN /\ response' = Response(op, u, 400, 0, FALSE)
                /\ UNCHANGED debt_notifications
           ELSE IF \E k \in DOMAIN debtor_ids : debtor_ids[k] \notin users
           THEN /\ response' = Response(op, u, 404, 0, FALSE)
                /\ UNCHANGED debt_notifications
           ELSE /\ response' = Response(op, u, 200, 0, FALSE)
                /\ debt_notifications' = debt_notifications \o new_debts
        /\ UNCHANGED <<budgets, category_budgets, expenses, notifications, users, today, checking,
                       started, group_members, group_expenses, expense_splits, expense_tasks, setting, alerts, debt_vars>>

\* db.query(DebtNotification).filter(id == debt_notification_id, status == False).first()
PendingDebtNotification(debt_notification_id) ==
    First({i \in DOMAIN debt_notifications :
              i = debt_notification_id /\ debt_notifications[i].status = FALSE})

\* POST /debts/respond_debt_notification/{debt_notification_id}.  The handler sets
\* the status (ACCEPTED is True, REJECTED is False), on accept adds an Expense built
\* without a date, commits, queues check_budget, then adds a Notification built
\* without a type and commits again.  A commit that violates a constraint raises
\* and writes nothing of its transaction.
respond_debt_notification(u, debt_notification_id, accept) ==
    LET op == "respond_debt_notification"
        debt_notification == PendingDebtNotification(debt_notification_id)
        debt_category == CategoryByName(u, DebtName)
        new_expense ==
            Expense(u, debt_notifications[debt_notification].amount, 0, debt_category)
        new_notification == Notification(u, "none", <<"debt_responded">>)
        first_commit == ~accept \/ DateNotNull(new_expense)
        second_commit == TypeNotNull(new_notification)
    IN  /\ Len(expenses) < MaxExpenses
        /\ Len(notifications) < MaxNotifications
        /\ IF debt_notification = 0
           THEN /\ response' = Response(op, u, 404, 0, FALSE)
                /\ UNCHANGED <<debt_notifications, expenses, notifications>>
           ELSE IF debt_notifications[debt_notification].debtor_id # u
           THEN /\ response' = Response(op, u, 403, 0, FALSE)
                /\ UNCHANGED <<debt_notifications, expenses, notifications>>
           ELSE IF debt_category = 0
           THEN /\ response' = Response(op, u, 400, 0, FALSE)
                /\ UNCHANGED <<debt_notifications, expenses, notifications>>
           ELSE IF ~first_commit
           THEN /\ response' = Response(op, u, 500, 0, TRUE)   \* IntegrityError
                /\ UNCHANGED <<debt_notifications, expenses, notifications>>
           ELSE /\ debt_notifications' =
                       [debt_notifications EXCEPT ![debt_notification].status = accept]
                /\ expenses' = IF accept THEN Append(expenses, new_expense) ELSE expenses
                /\ IF second_commit
                   THEN /\ response' = Response(op, u, 200, 0, FALSE)
                        /\ notifications' = Append(notifications, new_notification)
                   ELSE /\ response' = Response(op, u, 500, 0, TRUE)   \* IntegrityError
                        /\ UNCHANGED notifications
        /\ UNCHANGED <<budgets, category_budgets, users, today, checking, started, group_members,
                       group_expenses, expense_splits, expense_tasks, setting, alerts, debt_vars>>

\* Debt notifications sent between two users and the debtors' answers.
NextDebts ==
    \/ \E u \in users, a \in Amounts, debtor_ids \in DebtorIds :
          send_debt_notification(u, a, debtor_ids)
    \/ \E u \in users, n \in 1..MaxDebtNotifications, accept \in BOOLEAN :
          respond_debt_notification(u, n, accept)

SpecDebts == Init /\ [][NextDebts]_vars

\* ------------------------------------------------------------------ expense edits
\* A deleted expense keeps its primary key and matches no query.
DeletedExpense == [user_id |-> 0, amount |-> 0, date |-> 0, category_id |-> 0]

\* db.query(Expense).filter(Expense.id == expense_id, Expense.user_id == user.id).first()
OwnExpense(u, expense_id) ==
    First({i \in DOMAIN expenses : i = expense_id /\ expenses[i].user_id = u})

\* PUT /expenses/{expense_id}: the fields sent are set and committed.  amount may
\* be left out (a = 0); date has no default in ExpenseUpdate, so it is always sent,
\* as a day or as null (d = 0), and a null date fails the commit.  The handler
\* takes no BackgroundTasks and queues nothing.
update_expense(u, expense_id, a, d) ==
    LET expense == OwnExpense(u, expense_id)
        updated ==
            [expenses[expense] EXCEPT !.amount = IF a = 0 THEN @ ELSE a, !.date = d]
    IN  /\ IF expense = 0
           THEN UNCHANGED expenses   \* HTTP 404
           ELSE IF ~DateNotNull(updated)
           THEN UNCHANGED expenses   \* IntegrityError
           ELSE expenses' = [expenses EXCEPT ![expense] = updated]
        /\ expense_tasks' = {}
        /\ UNCHANGED <<budgets, category_budgets, notifications, users, today, response, checking,
                       started, group_vars, setting, alerts, debt_vars>>

\* DELETE /expenses/{expense_id}.  The handler takes no BackgroundTasks and queues nothing.
delete_expense(u, expense_id) ==
    LET expense == OwnExpense(u, expense_id)
    IN  /\ IF expense = 0
           THEN UNCHANGED expenses   \* HTTP 404
           ELSE expenses' = [expenses EXCEPT ![expense] = DeletedExpense]
        /\ expense_tasks' = {}
        /\ UNCHANGED <<budgets, category_budgets, notifications, users, today, response, checking,
                       started, group_vars, setting, alerts, debt_vars>>

\* The requests of the expenses router that write.
NextExpenses ==
    \/ \E u \in users, a \in Amounts, d \in Days : create_expense(u, a, d, 1)
    \/ \E u \in users, n \in 1..MaxExpenses, a \in 0..MaxAmount, d \in 0..MaxDay :
          update_expense(u, n, a, d)
    \/ \E u \in users, n \in 1..MaxExpenses : delete_expense(u, n)

SpecExpenses == Init /\ [][NextExpenses]_vars

\* ------------------------------------------------------------------ failing checks
\* The clauses of the try statement around the body of each threshold check.
CheckBudgetClauses == {"finally"}
CheckCategoryBudgetClauses == {"except Exception", "finally"}

\* An exception raised in the body leaves the function unless an except clause takes it.
Propagates(clauses) == "except Exception" \notin clauses

\* check_budget(u) in a run whose send_notification fails: the commit raises a
\* database error and no row is written.
check_budget_failing(u) ==
    /\ CheckBudgetRun(u) # notifications
    /\ response' = Response("check_budget", u, 0, 0, Propagates(CheckBudgetClauses))
    /\ UNCHANGED <<budgets, category_budgets, expenses, notifications, users, today, checking,
                   started, group_vars, expense_tasks, setting, alerts, debt_vars>>

\* check_category_budget(u) in a run whose first send_notification fails.
check_category_budget_failing(u) ==
    /\ CheckCategoryBudgetRun(u) # notifications
    /\ response' =
           Response("check_category_budget", u, 0, 0, Propagates(CheckCategoryBudgetClauses))
    /\ UNCHANGED <<budgets, category_budgets, expenses, notifications, users, today, checking,
                   started, group_vars, expense_tasks, setting, alerts, debt_vars>>

\* The requests that queue a threshold check, and the checks, which may fail.
NextFaults ==
    \/ \E u \in users, a \in Amounts : set_general_budget(u, a, 1, MaxDay)
    \/ \E u \in users, a \in Amounts : create_category_budget(u, 1, a, 1, MaxDay)
    \/ \E u \in users, a \in Amounts : create_expense(u, a, 1, 1)
    \/ \E u \in users : check_budget(u)
    \/ \E u \in users : check_category_budget(u)
    \/ \E u \in users : check_budget_failing(u)
    \/ \E u \in users : check_category_budget_failing(u)

SpecFaults == InitOneUser /\ [][NextFaults]_vars

\* ------------------------------------------------------------------ category status
\* The status tiers with the first bound taken strictly.
StatusSentStrict(amount_limit, remaining_amount) ==
    IF 5 * remaining_amount > amount_limit THEN "within limits"
    ELSE IF remaining_amount > 0 THEN "nearing threshold"
    ELSE "exceeded"

\* "within limits" if remaining_amount >= budget.amount_limit * 0.2
\* else "nearing threshold" if remaining_amount > 0 else "exceeded"
\* (amounts are whole numbers: r >= 0.2 * l is 5 * r >= l)
StatusSent(amount_limit, remaining_amount) ==
    IF 5 * remaining_amount >= amount_limit THEN "within limits"
    ELSE IF remaining_amount > 0 THEN "nearing threshold"
    ELSE "exceeded"

\* GET /category_budgets/{category_name}/status.  The amounts summed are those of
\* budget.owner.expenses, the owner's expenses of every category, inside the window.
\* The answer carries the status string next to the remaining amount.
retrieve_category_budget_status(u, name) ==
    LET op == "retrieve_category_budget_status"
        category == CategoryByName(u, name)
        budget == ActiveCategoryBudget(u, category)
        remaining_amount == RemainingAmount(category_budgets[budget], expenses)
    IN  /\ IF category = 0 \/ budget = 0
           THEN response' = Response(op, u, 404, 0, FALSE)
           ELSE response' =
                    Response(op, u, 200, remaining_amount, FALSE)
                    @@ [status_sent |->
                           StatusSent(category_budgets[budget].amount_limit, remaining_amount)]
        /\ UNCHANGED <<budgets, category_budgets, expenses, notifications, users, today, checking,
                       started, group_vars, expense_tasks, setting, alerts, debt_vars>>

\* Category budgets of one user, expenses in both categories, and the status query.
NextCategoryStatus ==
    \/ \E u \in users, name \in CategoryNames, s \in Days, e \in Days :
          create_category_budget(u, name, MaxAmount, s, e)
    \/ \E u \in users, a \in Amounts, d \in Days, name \in CategoryNames :
          create_expense(u, a, d, name)
    \/ \E u \in users, name \in CategoryNames : retrieve_category_budget_status(u, name)

SpecCategoryStatus == InitOneUser /\ [][NextCategoryStatus]_vars

\* Category budgets of one category with any window, dated expenses, and the check.
NextCategoryChecks ==
    \/ \E u \in users, a \in Amounts, s \in Days, e \in Days :
          create_category_budget(u, 1, a, s, e)
    \/ \E u \in users, a \in Amounts, d \in Days : create_expense(u, a, d, 1)
    \/ \E u \in users : check_category_budget(u)

SpecCategoryChecks == InitOneUser /\ [][NextCategoryChecks]_vars

\* ------------------------------------------------------------------ default budgets
\* The category a user creates after registration (the first one is "Debt").
OwnCategoryName == NumCategories

\* create_category (and create_new_category_budget) adds a default budget for the
\* new category: amount_limit 0 over the current month, here the days 1..MaxDay.
DefaultCategoryBudget(u) ==
    CategoryBudget(u, CategoryByName(u, OwnCategoryName), 0, 1, MaxDay)

\* The store after the one user has created a category: it holds the default budget.
InitDefaultBudget ==
    /\ users = {1}
    /\ budgets = <<>>
    /\ category_budgets = <<DefaultCategoryBudget(1)>>
    /\ expenses = <<>>
    /\ notifications = <<>>
    /\ today = 1
    /\ response = NoResponse
    /\ checking = [t \in Threads |-> NoCheck]
    /\ started = 1
    /\ group_members = <<>>
    /\ group_expenses = <<>>
    /\ expense_tasks = {}
    /\ setting = {}
    /\ alerts = <<>>
    /\ group_debts = <<>>
    /\ debt_categories = {}
    /\ expense_splits = <<>>
    /\ debt_notifications = <<>>

\* The limit the user gives the default budget, and the amounts spent against it:
\* they leave the whole limit but 1, nothing, or less than nothing.
TierLimit == 3 * MaxAmount
TierAmounts == {1, TierLimit - 1}

\* A default budget, its limit raised or not, expenses and the status query.
NextTiers ==
    \/ \E u \in users : modify_category_budget(u, OwnCategoryName, TierLimit, 0, 0)
    \/ \E u \in users, a \in TierAmounts, d \in Days : create_expense(u, a, d, OwnCategoryName)
    \/ \E u \in users : retrieve_category_budget_status(u, OwnCategoryName)

SpecTiers == InitDefaultBudget /\ [][NextTiers]_vars

\* ------------------------------------------------------------------ notification writers
\* PUT /notifications/mark-all-as-read
mark_all_notifications_as_read(u) ==
    LET unread == {i \in DOMAIN notifications :
                      notifications[i].user_id = u /\ notifications[i].is_read = FALSE}
    IN  /\ IF unread = {}
           THEN UNCHANGED notifications   \* HTTP 404
           ELSE notifications' =
                    [i \in DOMAIN notifications |->
                        IF i \in unread
                        THEN [notifications[i] EXCEPT !.is_read = TRUE]
                        ELSE notifications[i]]
        /\ UNCHANGED <<budgets, category_budgets, expenses, users, today, response, checking,
                       started, group_vars, expense_tasks, setting, alerts, debt_vars>>

\* Every operation that writes to existing notification rows, next to the ones
\* that create them.
NextNotifications ==
    \/ \E u \in users, a \in Amounts : set_general_budget(u, a, 1, MaxDay)
    \/ \E u \in users : create_expense(u, MaxAmount, 1, 1)
    \/ \E u \in users : check_budget(u)
    \/ \E u \in users, n \in 1..MaxNotifications : mark_notification_as_read(u, n)
    \/ \E u \in users : mark_all_notifications_as_read(u)
    \/ \E u \in users, a \in Amounts : update_general_budget(u, a, 1, MaxDay)
    \/ \E u \in users : deactivate_general_budget(u)
    \/ \E u \in users, b \in 1..MaxBudgets : delete_general_budget(u, b)
    \/ PassDays(RetentionDays + 1)
    \/ delete_old_notifications

SpecNotifications == Init /\ [][NextNotifications]_vars

\* ------------------------------------------------------------------ analytics
\* The columns of the Expense model: the attributes an Expense row can be read by.
ExpenseColumns == {"id", "amount", "description", "date", "user_id", "category_id"}

RECURSIVE ByEndDate(_)
\* A set of budget keys ordered by end_date ascending (an equal end_date by key).
ByEndDate(S) ==
    IF S = {} THEN <<>>
    ELSE LET b == CHOOSE i \in S :
                     \A j \in S : \/ budgets[i].end_date < budgets[j].end_date
                                  \/ budgets[i].end_date = budgets[j].end_date /\ i <= j
         IN  <<b>> \o ByEndDate(S \ {b})

\* db.query(GeneralBudget).filter(user_id == user.id).order_by(end_date.asc()).all():
\* the user's budgets of every status.
BudgetsByEndDate(u) == ByEndDate({i \in DOMAIN budgets : budgets[i].user_id = u})

\* for budget in budgets: if start_date <= expense.date <= end_date: ...; break
\* The first budget of the list whose window holds the expense; 0 stands for none.
FirstMatchingBudget(bs, expense) ==
    LET hits == {k \in DOMAIN bs : InWindow(budgets[bs[k]], expense)}
    IN  IF hits = {} THEN 0 ELSE bs[Min(hits)]

\* expense_to_budget_map, over the keys of the user's expenses (0: not in the dict)
ExpenseToBudgetMap(u) ==
    [i \in {j \in DOMAIN expenses : expenses[j].user_id = u} |->
        FirstMatchingBudget(BudgetsByEndDate(u), expenses[i])]

\* GET /analytics/budget_expense_mapping.  Building ExpenseDetail for a mapped
\* expense reads expense.name, which the Expense model does not have.
get_budget_expense_mapping(u) ==
    LET op == "get_budget_expense_mapping"
        bs == BudgetsByEndDate(u)
        map == ExpenseToBudgetMap(u)
        mapped == {i \in DOMAIN map : map[i] # 0}
        total_expenses ==
            [b \in {bs[k] : k \in DOMAIN bs} |->
                LET mine == SeqOfSet({i \in mapped : map[i] = b})
                IN  SumSeq([k \in DOMAIN mine |-> expenses[mine[k]].amount])]
    IN  /\ response' =
              IF bs = <<>> THEN Response(op, u, 404, 0, FALSE)
              ELSE IF mapped # {} /\ "name" \notin ExpenseColumns
              THEN Response(op, u, 500, 0, TRUE)   \* AttributeError
              ELSE Response(op, u, 200, 0, FALSE)
                   @@ [mapping |-> map, total_expenses |-> total_expenses]
        /\ UNCHANGED <<budgets, category_budgets, expenses, notifications, users, today, checking,
                       started, group_vars, expense_tasks, setting, alerts, debt_vars>>

\* Budgets of one user, some deactivated, with expenses, and the mapping query.
NextMapping ==
    \/ \E u \in users, s \in Days, e \in Days : set_general_budget(u, 1, s, e)
    \/ \E u \in users : deactivate_general_budget(u)
    \/ \E u \in users, d \in Days : create_expense(u, 1, d, 1)
    \/ \E u \in users : get_budget_expense_mapping(u)

SpecMapping == InitOneUser /\ [][NextMapping]_vars

\* ------------------------------------------------------------------ concurrent POST /budget/
\* Two requests served at once (FastAPI runs a sync handler in a worker thread,
\* each with its own session).  The handler reads (the overlap query and the
\* category total) and later adds and commits; the budgets table declares no
\* constraint over the windows of a user's active rows.
BudgetRequest(u, a, s, e) == [user_id |-> u, amount_limit |-> a, start_date |-> s, end_date |-> e]

\* The requests in flight at once.
MaxRequests == 2

\* The reads of the handler: a request that passes both tests goes on to its commit.
set_general_budget_query(u, a, s, e) ==
    LET existing_budget ==
            First({i \in ActiveBudgets(u) : OverlapsWindow(budgets[i], s, e)})
        total_category_budget == TotalCategoryBudget(u)
    IN  /\ Cardinality(setting) < MaxRequests
        /\ BudgetRequest(u, a, s, e) \notin setting
        /\ IF existing_budget # 0
           THEN /\ UNCHANGED setting   \* HTTP 400
                /\ response' = Response("set_general_budget", u, 400, 0, FALSE)
           ELSE IF a < total_category_budget
           THEN /\ UNCHANGED setting   \* HTTP 403
                /\ response' = Response("set_general_budget", u, 403, 0, FALSE)
           ELSE /\ setting' = setting \cup {BudgetRequest(u, a, s, e)}
                /\ UNCHANGED response
        /\ UNCHANGED <<budgets, category_budgets, expenses, notifications, users, today, checking,
                       started, group_vars, expense_tasks, alerts, debt_vars>>

\* db.add(new_budget); db.commit(): nothing is read again and no constraint can fail.
set_general_budget_commit(r) ==
    /\ r \in setting
    /\ Len(budgets) < MaxBudgets
    /\ setting' = setting \ {r}
    /\ budgets' = Append(budgets, GeneralBudget(r.user_id, r.amount_limit, r.start_date, r.end_date))
    /\ response' = Response("set_general_budget", r.user_id, 201, 0, FALSE)
    /\ UNCHANGED <<category_budgets, expenses, notifications, users, today, checking,
                   started, group_vars, expense_tasks, alerts, debt_vars>>

NextConcurrentBudgets ==
    \/ \E u \in users, a \in Amounts, s \in Days, e \in Days : set_general_budget_query(u, a, s, e)
    \/ \E r \in setting : set_general_budget_commit(r)
    \/ \E u \in users : deactivate_general_budget(u)

SpecConcurrentBudgets == Init /\ [][NextConcurrentBudgets]_vars

\* ------------------------------------------------------------------ alert thresholds
Alert(u, threshold) == [user_id |-> u, threshold |-> threshold]

\* The rows of the alerts table.
MaxAlerts == 2

\* POST /alert/.  The handler queues check_thresholds(user) after its commit.
create_alert(u, threshold) ==
    LET existing_alert ==
            First({i \in DOMAIN alerts :
                      alerts[i].user_id = u /\ alerts[i].threshold = threshold})
        active_budget == First(ActiveBudgets(u))
    IN  /\ Len(alerts) < MaxAlerts
        /\ IF existing_alert # 0
           THEN UNCHANGED alerts   \* HTTP 400
           ELSE IF active_budget = 0
           THEN UNCHANGED alerts   \* HTTP 400
           ELSE alerts' = Append(alerts, Alert(u, threshold))
        /\ UNCHANGED <<budgets, category_budgets, expenses, notifications, users, today, response,
                       checking, started, group_vars, expense_tasks, setting, debt_vars>>

\* f"Your alert threshold of {alert.threshold} has been exceeded by {adherence:.2f}"
ThresholdExceededMessage(threshold, adherence) == <<"threshold_exceeded", threshold, adherence>>

\* total_expenses: the amounts of all the user's expenses, whatever their date.
TotalExpenses(u) ==
    LET user_expenses == SelectSeq(expenses, LAMBDA x : x.user_id = u)
    IN  SumSeq([k \in 1..Len(user_expenses) |-> user_expenses[k].amount])

\* The task check_thresholds(user_id) of the alerts router, queued by create_expense,
\* create_alert and get_alerts.  alert is the .first()
\* row of the user or None; without a row the run logs a warning and goes on to
\* read alert.threshold, which raises AttributeError.  With a row and an
\* exceedance not yet notified it adds a Notification built without a type and
\* commits.  try ... finally has no except clause: an error leaves the function.
check_thresholds(u) ==
    LET op == "check_thresholds"
        alert == First({i \in DOMAIN alerts : alerts[i].user_id = u})
        adherence == TotalExpenses(u) - alerts[alert].threshold
        message == ThresholdExceededMessage(alerts[alert].threshold, adherence)
        notification == Notification(u, "none", message)
    IN  /\ IF alert = 0
           THEN /\ response' = Response(op, u, 0, 0, TRUE)   \* AttributeError
                /\ UNCHANGED notifications
           ELSE IF adherence > 0 /\ ExistingNotification(notifications, u, message) = 0
           THEN IF TypeNotNull(notification)
                THEN /\ Len(notifications) < MaxNotifications
                     /\ notifications' = Append(notifications, notification)
                     /\ response' = Response(op, u, 0, 0, FALSE)
                ELSE /\ response' = Response(op, u, 0, 0, TRUE)   \* IntegrityError
                     /\ UNCHANGED notifications
           ELSE /\ response' = Response(op, u, 0, 0, FALSE)
                /\ UNCHANGED notifications
        /\ UNCHANGED <<budgets, category_budgets, expenses, users, today, checking, started,
                       group_vars, expense_tasks, setting, alerts, debt_vars>>

\* Expenses of one user with and without an alert, and the threshold check each creation queues.
NextThresholds ==
    \/ \E u \in users, a \in Amounts : set_general_budget(u, a, 1, MaxDay)
    \/ \E u \in users, threshold \in Amounts : create_alert(u, threshold)
    \/ \E u \in users, a \in Amounts, d \in Days : create_expense(u, a, d, 1)
    \/ \E u \in users : check_thresholds(u)

SpecThresholds == InitOneUser /\ [][NextThresholds]_vars

\* ------------------------------------------------------------------ group debts
\* GroupDebt(group_id, debtor_id, creditor_id, amount, description); amount_paid
\* defaults to 0 and status to "active".
GroupDebt(debtor, creditor, amount) ==
    [debtor_id |-> debtor, creditor_id |-> creditor, amount |-> amount,
     amount_paid |-> 0, status |-> "active"]

\* The rows of the group_debts table.
MaxGroupDebts == 2

\* The amount_paid query parameter is a float without validation.
PaidAmounts == (0 - 1)..MaxAmount

\* The payment_type query parameter is a string.
PaymentTypes == {"partial", "full", "other"}

\* The primary key of the user's "Group Debts" category, past the keys of Category.
GroupDebtsCategory(u) == NumUsers * NumCategories + u

\* A store holding group debts between the two users, as the split loop builds
\* them for the splits of other users: debtor, creditor and a positive amount.
InitGroupDebts ==
    /\ users = Users
    /\ budgets = <<>>
    /\ category_budgets = <<>>
    /\ expenses = <<>>
    /\ notifications = <<>>
    /\ today = 1
    /\ response = NoResponse
    /\ checking = [t \in Threads |-> NoCheck]
    /\ started = 1
    /\ group_members = <<>>
    /\ group_expenses = <<>>
    /\ expense_splits = <<>>
    /\ debt_notifications = <<>>
    /\ expense_tasks = {}
    /\ setting = {}
    /\ alerts = <<>>
    /\ debt_categories = {}
    /\ \E rows \in [1..MaxGroupDebts -> Users \X Amounts] :
          group_debts = [i \in 1..MaxGroupDebts |->
                            GroupDebt(rows[i][1], CHOOSE c \in Users : c # rows[i][1], rows[i][2])]

\* PUT /{debt_id}/pay.  The handler writes debt.amount_paid and debt.status on the
\* loaded row, commits when it has to create the payer's "Group Debts" category
\* (which writes the pending change of the debt with it), then builds
\* Expense(amount, name, user_id, category_id), the Notification and commits.
\* Expense has no name, so the constructor raises TypeError; built without a
\* date the row would fail the last commit.
pay_debt(u, debt_id, amount_paid, payment_type) ==
    LET op == "pay_debt"
        debt == IF debt_id \in DOMAIN group_debts THEN debt_id ELSE 0
        paid == IF payment_type = "full"
                THEN group_debts[debt].amount - group_debts[debt].amount_paid
                ELSE amount_paid
        new_amount_paid == group_debts[debt].amount_paid + paid
        updated ==
            [group_debts EXCEPT ![debt] =
                [@ EXCEPT !.amount_paid = new_amount_paid,
                          !.status = IF new_amount_paid >= group_debts[debt].amount
                                     THEN "paid" ELSE "partial"]]
        new_expense == Expense(u, paid, 0, GroupDebtsCategory(u))
        notification ==
            Notification(group_debts[debt].creditor_id, "group_debt", <<"has_paid", u, paid>>)
        last_commit == "name" \in ExpenseColumns /\ DateNotNull(new_expense)
    IN  /\ Len(expenses) < MaxExpenses
        /\ Len(notifications) < MaxNotifications
        /\ IF payment_type \notin {"partial", "full"}
           THEN /\ response' = Response(op, u, 400, 0, FALSE)
                /\ UNCHANGED <<group_debts, debt_categories, expenses, notifications>>
           ELSE IF debt = 0
           THEN /\ response' = Response(op, u, 404, 0, FALSE)
                /\ UNCHANGED <<group_debts, debt_categories, expenses, notifications>>
           ELSE IF group_debts[debt].debtor_id # u
           THEN /\ response' = Response(op, u, 403, 0, FALSE)
                /\ UNCHANGED <<group_debts, debt_categories, expenses, notifications>>
           ELSE IF payment_type = "partial"
                   /\ amount_paid > group_debts[debt].amount - group_debts[debt].amount_paid
           THEN /\ response' = Response(op, u, 400, 0, FALSE)
                /\ UNCHANGED <<group_debts, debt_categories, expenses, notifications>>
           ELSE IF last_commit
           THEN /\ response' = Response(op, u, 200, 0, FALSE)
                /\ group_debts' = updated
                /\ debt_categories' = debt_categories \cup {u}
                /\ expenses' = Append(expenses, new_expense)
                /\ notifications' = Append(notifications, notification)
           ELSE /\ response' = Response(op, u, 500, 0, TRUE)   \* TypeError / IntegrityError
                /\ UNCHANGED <<expenses, notifications>>
                /\ IF u \in debt_categories
                   THEN UNCHANGED <<group_debts, debt_categories>>
                   ELSE /\ group_debts' = updated
                        /\ debt_categories' = debt_categories \cup {u}
        /\ UNCHANGED <<budgets, category_budgets, users, today, checking, started, group_vars,
                       expense_tasks, setting, alerts>>

NextGroupDebts ==
    \E u \in users, debt_id \in 1..MaxGroupDebts, amount_paid \in PaidAmounts,
       payment_type \in PaymentTypes :
          pay_debt(u, debt_id, amount_paid, payment_type)

SpecGroupDebts == InitGroupDebts /\ [][NextGroupDebts]_vars

\* ------------------------------------------------------------------ claims
\* C1: no two distinct active GeneralBudgets of one user have intersecting
\* [start_date, end_date] windows, whatever sequence of set, update, deactivate,
\* delete and expiry-sweep operations ran.
C1_NoOverlappingActiveBudgets ==
    \A i, j \in DOMAIN budgets :
        (/\ i # j
         /\ budgets[i].status = "active"
         /\ budgets[j].status = "active"
         /\ budgets[i].user_id = budgets[j].user_id)
        => ~(/\ budgets[i].start_date <= budgets[j].end_date
             /\ budgets[i].end_date >= budgets[j].start_date)

\* Two active budgets of one user with adjacent windows coexist.
C1_Witness ==
    \E i, j \in DOMAIN budgets :
        /\ i # j
        /\ budgets[i].status = "active"
        /\ budgets[j].status = "active"
        /\ budgets[i].user_id = budgets[j].user_id
        /\ budgets[i].end_date + 1 = budgets[j].start_date

\* C2: for every user with an active GeneralBudget, the amount_limit of the
\* user's active CategoryBudgets sums to at most that budget's amount_limit.
C2_CategorySumWithinGeneralLimit ==
    \A u \in users : \A i \in ActiveBudgets(u) :
        TotalCategoryBudget(u) <= budgets[i].amount_limit

\* C3: no two distinct active CategoryBudgets of one user and one category have
\* intersecting [start_date, end_date] windows.
C3_NoOverlappingActiveCategoryBudgets ==
    \A i, j \in DOMAIN category_budgets :
        (/\ i # j
         /\ category_budgets[i].status = "active"
         /\ category_budgets[j].status = "active"
         /\ category_budgets[i].user_id = category_budgets[j].user_id
         /\ category_budgets[i].category_id = category_budgets[j].category_id)
        => ~(/\ category_budgets[i].start_date <= category_budgets[j].end_date
             /\ category_budgets[i].end_date >= category_budgets[j].start_date)

\* C8: with an active GeneralBudget of limit G and active CategoryBudgets summing
\* to C, create_category_budget with amount_limit a creates nothing when
\* C + a > G, and creates the budget when C + a <= G and no window overlaps.
C8_CreateCategoryBudgetSumGuard ==
    [][\A u \in users, name \in CategoryNames, a \in Amounts, s \in Days, e \in Days :
          \A g \in ActiveBudgets(u) :
              create_category_budget(u, name, a, s, e) =>
                  /\ (TotalCategoryBudget(u) + a > budgets[g].amount_limit)
                        => category_budgets' = category_budgets
                  /\ (/\ TotalCategoryBudget(u) + a <= budgets[g].amount_limit
                      /\ \A i \in ActiveCategoryBudgets(u) :
                            category_budgets[i].category_id = CategoryByName(u, name)
                            => ~(/\ category_budgets[i].start_date <= e
                                 /\ category_budgets[i].end_date >= s))
                        => Len(category_budgets') = Len(category_budgets) + 1
      ]_vars

\* C9: set_general_budget and update_general_budget leave the stored budgets
\* unchanged whenever the requested amount_limit is below the sum of the user's
\* active CategoryBudget limits.
C9_GeneralBudgetSumGuard ==
    [][\A u \in users, a \in Amounts, s \in Days, e \in Days :
          (/\ set_general_budget(u, a, s, e) \/ update_general_budget(u, a, s, e)
           /\ a < TotalCategoryBudget(u))
          => budgets' = budgets
      ]_vars

RECURSIVE AmountOfSet(_)
\* The total of the amounts of a set of expense rows, taken in no particular order.
AmountOfSet(S) ==
    IF S = {} THEN 0
    ELSE LET i == CHOOSE i \in S : TRUE
         IN  expenses[i].amount + AmountOfSet(S \ {i})

\* Every order in which the rows of the expenses table could have been created.
Reorderings(exps) ==
    {[k \in DOMAIN exps |-> exps[p[k]]] :
        p \in {q \in [DOMAIN exps -> DOMAIN exps] :
                 \A a, b \in DOMAIN exps : q[a] = q[b] => a = b}}

C7_SecondCheckInsertsNothing ==
    [][\A u \in users :
         /\ check_budget(u) => CheckBudgetFrom(notifications', u) = notifications'
         /\ check_category_budget(u) =>
                CheckCategoryBudgetFrom(notifications', u) = notifications']_vars

\* The first runs have written an exceedance notification of each kind, both
\* still unread, and the budgets are still exceeded.
C7_Witness ==
    \E u \in users :
        /\ response.op = "check_category_budget"
        /\ response.user = u
        /\ \E i, j \in DOMAIN notifications :
              /\ notifications[i].user_id = u
              /\ notifications[i].is_read = FALSE
              /\ notifications[i].message[1] = "budget_exceeded"
              /\ notifications[j].user_id = u
              /\ notifications[j].is_read = FALSE
              /\ notifications[j].message[1] = "category_budget_exceeded"
        /\ Exceeded(RemainingAmount(budgets[First(ActiveBudgets(u))], expenses))
        /\ CheckBudgetRun(u) = notifications
        /\ CheckCategoryBudgetRun(u) = notifications

\* What one run of a budget check must leave behind for a user with no
\* notifications and one active GeneralBudget of limit L whose in-window expenses
\* total S: when S > L, one more row, unread, for that user, carrying L and
\* S - L; when S <= L, the notifications table as it was.
OneRunNotifiesOnce(u) ==
    LET budget == budgets[First(ActiveBudgets(u))]
        L == budget.amount_limit
        S == AmountOfSet({i \in DOMAIN expenses :
                            /\ expenses[i].user_id = u
                            /\ expenses[i].date >= budget.start_date
                            /\ expenses[i].date <= budget.end_date})
    IN  IF S > L
        THEN \E row \in {notifications'[n] : n \in DOMAIN notifications'} :
                /\ notifications' = Append(notifications, row)
                /\ row.user_id = u
                /\ row.message = <<"budget_exceeded", L, S - L>>
                /\ row.is_read = FALSE
        ELSE notifications' = notifications

\* The user has one active GeneralBudget and no notification.
OneBudgetNoNotification(u) ==
    /\ Cardinality(ActiveBudgets(u)) = 1
    /\ \A n \in DOMAIN notifications : notifications[n].user_id # u

\* C6: for a user with one active GeneralBudget of limit L, in-window expenses
\* totalling S and no prior notification, one run of check_budget, in the
\* background jobs or in the alerts router, creates exactly one unread
\* notification carrying L and S - L when S > L, and none when S <= L.
C6_OneRunNotifiesOnce ==
    [][\A u \in users :
         ((check_budget(u) \/ alerts_check_budget(u)) /\ OneBudgetNoNotification(u))
         => OneRunNotifiesOnce(u)]_vars

\* The same statement for the check_budget of the background jobs alone.
OneRunOfTheJobNotifiesOnce ==
    [][\A u \in users :
         (check_budget(u) /\ OneBudgetNoNotification(u)) => OneRunNotifiesOnce(u)]_vars

\* C10: one pass of check_and_deactivate_expired_budgets turns every active
\* GeneralBudget whose end_date lies before today into "deactivated" and leaves
\* exactly one unread deactivation notification for its owner, and every active
\* budget that has not expired stays active, for budgets of one or several users.
C10_SweepDeactivatesAndNotifies ==
    [][check_and_deactivate_expired_budgets =>
         \A i \in DOMAIN budgets :
            budgets[i].status = "active" =>
               IF budgets[i].end_date < today
               THEN /\ budgets'[i].status = "deactivated"
                    /\ Cardinality({n \in DOMAIN notifications' :
                           /\ notifications'[n].user_id = budgets[i].user_id
                           /\ notifications'[n].message = <<"budget_deactivated", i, 0>>
                           /\ notifications'[n].is_read = FALSE}) = 1
               ELSE budgets'[i].status = "active"]_vars

\* The part of C10 about the budgets alone: every expired active budget is
\* deactivated by one pass.
SweepDeactivatesEveryExpiredBudget ==
    [][check_and_deactivate_expired_budgets =>
         \A i \in DOMAIN budgets :
            (budgets[i].status = "active" /\ budgets[i].end_date < today)
               => budgets'[i].status = "deactivated"]_vars

\* The unread rows of a notifications table that carry message m for user u.
UnreadWith(ns, u, m) ==
    {i \in DOMAIN ns : ns[i].user_id = u /\ ns[i].message = m /\ ns[i].is_read = FALSE}

\* No user has two unread rows with one message in the table ns.
AtMostOneUnread(ns) ==
    \A i, j \in DOMAIN ns :
        (/\ ns[i].user_id = ns[j].user_id
         /\ ns[i].message = ns[j].message
         /\ ns[i].is_read = FALSE
         /\ ns[j].is_read = FALSE) => i = j

\* A thread inserts after a lookup that has gone stale: since the lookup, another
\* run has inserted an unread row with the same message.
StaleInsert ==
    \E t \in Threads :
        /\ check_budget_insert(t)
        /\ UnreadWith(notifications, checking[t].user, checking[t].message) # {}

C11_DeactivatedIsTerminal ==
    [][/\ \A i \in DOMAIN budgets :
             budgets[i].status = "deactivated" => budgets'[i] = budgets[i]
       /\ \A i \in DOMAIN category_budgets :
             category_budgets[i].status = "deactivated"
                => category_budgets'[i] = category_budgets[i]]_vars

\* A budget deactivated by the sweep and a deactivated category budget, each
\* next to a later active budget of the same user that an update has changed.
C11_Witness ==
    /\ \E i, j \in DOMAIN budgets :
          /\ i < j
          /\ budgets[i].status = "deactivated"
          /\ budgets[i].end_date < today
          /\ budgets[j].status = "active"
          /\ budgets[j].user_id = budgets[i].user_id
          /\ budgets[j].start_date > budgets[j].end_date
    /\ \E i, j \in DOMAIN category_budgets :
          /\ i < j
          /\ category_budgets[i].status = "deactivated"
          /\ category_budgets[j].status = "active"
          /\ category_budgets[j].category_id = category_budgets[i].category_id
          /\ category_budgets[j].start_date > category_budgets[j].end_date

\* C12: one run of delete_old_notifications removes every notification whose
\* created_at is more than 30 days before the run, read or unread, and removes
\* none whose created_at is less than 30 days before the run.
C12_RetentionSweep ==
    [][delete_old_notifications =>
          \A i \in DOMAIN notifications :
              notifications[i] # DeletedNotification =>
                  /\ today - notifications[i].created_at > RetentionDays
                        => notifications'[i] = DeletedNotification
                  /\ today - notifications[i].created_at < RetentionDays
                        => notifications'[i] = notifications[i]]_vars

\* After a run: an unread notification 31 days old is gone, one 29 days old stays.
C12_Witness ==
    /\ response.op = "delete_old_notifications"
    /\ \E i, j \in DOMAIN notifications :
          /\ notifications[i] = DeletedNotification
          /\ notifications[j] # DeletedNotification
          /\ today - notifications[j].created_at = RetentionDays - 1
    /\ \E i \in DOMAIN notifications :
          /\ notifications[i] # DeletedNotification
          /\ ~notifications[i].is_read

\* The rows a group expense request writes.
SplitStore == <<group_expenses, expense_splits, debt_notifications, notifications>>

\* C13: create_and_split_group_expense is all-or-nothing: a request rejected
\* because the splits do not sum to the amount, or because a split's user is not
\* an active member, leaves no GroupExpense, ExpenseSplit, debt record or
\* Notification behind.
C13_RejectedSplitLeavesNothing ==
    [][\A u \in users, a \in Amounts, splits \in SplitInputs :
          create_and_split_group_expense(u, a, splits) /\ response'.status = 400
             => UNCHANGED SplitStore]_vars

\* C14: a request that passes both checks creates one ExpenseSplit per split and,
\* for every split of a user other than the payer, one debt record (debtor the
\* split's user, creditor the payer, amount the split's) and one Notification
\* for that user, and nothing of the two for the payer's own split.
C14_SplitCreatesDebtsAndNotifications ==
    [][\A u \in users, a \in Amounts, splits \in SplitInputs :
          /\ create_and_split_group_expense(u, a, splits)
          /\ ActiveMember(u) # 0
          /\ SumSeq([k \in DOMAIN splits |-> splits[k].amount]) = a
          /\ \A k \in DOMAIN splits : ActiveMember(splits[k].user_id) # 0
          => LET others == OthersSplits(u, splits)
             IN  /\ Len(expense_splits') = Len(expense_splits) + Len(splits)
                 /\ \A k \in DOMAIN splits :
                       expense_splits'[Len(expense_splits) + k] =
                           ExpenseSplit(Len(group_expenses'), splits[k].user_id, splits[k].amount)
                 /\ Len(debt_notifications') = Len(debt_notifications) + Len(others)
                 /\ \A k \in DOMAIN others :
                       debt_notifications'[Len(debt_notifications) + k] =
                           DebtNotification(others[k].amount, others[k].user_id, u)
                 /\ Len(notifications') = Len(notifications) + Len(others)
                 /\ \A k \in DOMAIN others :
                       notifications'[Len(notifications) + k].user_id = others[k].user_id]_vars

\* C15: when the debtor answers a pending debt notification and owns a "Debt"
\* category, accept = true persists exactly one new Expense of the debtor, with
\* the notification's amount and the debtor's "Debt" category, and accept = false
\* persists none.
C15_AcceptedDebtBecomesExpense ==
    [][\A u \in users, n \in 1..MaxDebtNotifications, accept \in BOOLEAN :
          /\ respond_debt_notification(u, n, accept)
          /\ PendingDebtNotification(n) # 0
          /\ debt_notifications[n].debtor_id = u
          /\ CategoryByName(u, DebtName) # 0
          => IF accept
             THEN /\ Len(expenses') = Len(expenses) + 1
                  /\ expenses'[Len(expenses')].user_id = u
                  /\ expenses'[Len(expenses')].amount = debt_notifications[n].amount
                  /\ expenses'[Len(expenses')].category_id = CategoryByName(u, DebtName)
             ELSE expenses' = expenses]_vars

\* A queued task that is a budget threshold check for user u.
IsBudgetCheck(task, u) == task[1] \in {"check_budget", "alerts.check_budget"} /\ task[2] = u

\* C16: every successful expense creation, update and deletion queues a budget
\* threshold check (check_budget) for the requesting user.
C16_ExpenseWritesQueueCheck ==
    [][\A u \in users :
          \/ \E a \in Amounts, d \in Days : create_expense(u, a, d, 1)
          \/ \E n \in 1..MaxExpenses, a \in 0..MaxAmount, d \in 0..MaxDay :
                update_expense(u, n, a, d) /\ OwnExpense(u, n) # 0 /\ d # 0
          \/ \E n \in 1..MaxExpenses : delete_expense(u, n) /\ OwnExpense(u, n) # 0
          => \E task \in expense_tasks' : IsBudgetCheck(task, u)]_vars

\* C17: a persistence error raised inside a threshold check that a request queued
\* is swallowed inside the check: it does not leave check_budget or
\* check_category_budget, and what the request committed stays persisted.
C17_CheckFailureIsSwallowed ==
    [][\A u \in users :
          check_budget_failing(u) \/ check_category_budget_failing(u)
             => /\ ~response'.raised
                /\ UNCHANGED <<budgets, category_budgets, expenses>>]_vars

\* C18: the duplicate check is a read followed by a write with no uniqueness
\* constraint behind it: the insert of a run that has passed its lookup adds an
\* unread row whatever the table holds by then, so two runs for one user that both
\* look up before either inserts leave two unread notifications with one message.
C18_InsertAfterLookupAlwaysAdds ==
    [][\A t \in Threads :
          check_budget_insert(t)
             => Cardinality(UnreadWith(notifications', checking[t].user, checking[t].message))
                = Cardinality(UnreadWith(notifications, checking[t].user, checking[t].message)) + 1]_vars

\* Both runs have ended and the user holds two unread notifications with one message.
C18_Witness ==
    /\ \A t \in Threads : checking[t] = NoCheck
    /\ \E i, j \in DOMAIN notifications :
          /\ i # j
          /\ notifications[i].user_id = notifications[j].user_id
          /\ notifications[i].message = notifications[j].message
          /\ notifications[i].is_read = FALSE
          /\ notifications[j].is_read = FALSE

\* C19: the remaining_amount returned by retrieve_category_budget_status is the
\* budget's amount_limit minus the sum of the owner's expenses whose category is
\* the budget's and whose date lies in [start_date, end_date]; the owner's
\* expenses of other categories do not reduce it.
C19_CategoryRemainingAmount ==
    [][\A u \in users, name \in CategoryNames :
          retrieve_category_budget_status(u, name) /\ response'.status = 200
             => LET budget == category_budgets[ActiveCategoryBudget(u, CategoryByName(u, name))]
                    matching == {i \in DOMAIN expenses :
                                    /\ expenses[i].user_id = budget.user_id
                                    /\ expenses[i].category_id = budget.category_id
                                    /\ expenses[i].date >= budget.start_date
                                    /\ expenses[i].date <= budget.end_date}
                IN  response'.remaining_amount = budget.amount_limit - AmountOfSet(matching)]_vars

\* C20: check_budget(user) evaluates every active GeneralBudget of the user: after
\* the check an unread exceedance notification exists for each active budget whose
\* in-window expense total exceeds its limit, not only for the first one.
C20_CheckBudgetCoversEveryActiveBudget ==
    [][\A u \in users :
          check_budget(u)
             => \A b \in ActiveBudgets(u) :
                   LET remaining_amount == RemainingAmount(budgets[b], expenses)
                       message == BudgetExceededMessage(budgets[b].amount_limit, remaining_amount)
                   IN  Exceeded(remaining_amount)
                          => UnreadWith(notifications', u, message) # {}]_vars

\* The total of the owner's expenses that have the budget's category and a date
\* inside the budget's window.
CategoryWindowTotal(budget) ==
    AmountOfSet({i \in DOMAIN expenses :
                    /\ expenses[i].user_id = budget.user_id
                    /\ expenses[i].category_id = budget.category_id
                    /\ expenses[i].date >= budget.start_date
                    /\ expenses[i].date <= budget.end_date})

\* C21: check_category_budget(user) creates an exceedance notification for an
\* active CategoryBudget exactly when the user's expenses of that category dated
\* inside the budget's window exceed amount_limit; expenses outside the window
\* cause none, and every active budget of a category is evaluated.
C21_CategoryCheckUsesWindow ==
    [][\A u \in users :
          check_category_budget(u) /\ notifications = <<>>
             => \A b \in ActiveCategoryBudgets(u) :
                   LET budget == category_budgets[b]
                       total == CategoryWindowTotal(budget)
                       message == CategoryExceededMessage(
                                      CategoryName(u, budget.category_id),
                                      total - budget.amount_limit, budget.amount_limit)
                   IN  (total > budget.amount_limit)
                          <=> UnreadWith(notifications', u, message) # {}]_vars

\* The active budget that retrieve_category_budget_status(u, name) answers for.
StatusBudget(u, name) == category_budgets[ActiveCategoryBudget(u, CategoryByName(u, name))]

\* C22 as stated: for every limit, amount_limit = 0 included, the status is
\* "within limits" iff remaining >= 0.2 * amount_limit, "nearing threshold" iff
\* 0 < remaining < 0.2 * amount_limit, and "exceeded" iff remaining <= 0.
C22_ThreeTierStatus ==
    [][\A u \in users :
          retrieve_category_budget_status(u, OwnCategoryName) /\ response'.status = 200
             => LET l == StatusBudget(u, OwnCategoryName).amount_limit
                    r == response'.remaining_amount
                    s == response'.status_sent
                IN  /\ s = "within limits" <=> 5 * r >= l
                    /\ s = "nearing threshold" <=> (0 < r /\ 5 * r < l)
                    /\ s = "exceeded" <=> r <= 0]_vars

\* C22, amended: the tiers are tried in order: "within limits" iff
\* remaining >= 0.2 * amount_limit; otherwise "nearing threshold" iff remaining > 0;
\* otherwise "exceeded".  For amount_limit > 0 this is the rule as stated; for
\* amount_limit = 0 a remaining amount of 0 is "within limits", not "exceeded".
C22_TiersInOrder ==
    [][\A u \in users :
          retrieve_category_budget_status(u, OwnCategoryName) /\ response'.status = 200
             => LET l == StatusBudget(u, OwnCategoryName).amount_limit
                    r == response'.remaining_amount
                    s == response'.status_sent
                IN  /\ s \in {"within limits", "nearing threshold", "exceeded"}
                    /\ s = "within limits" <=> 5 * r >= l
                    /\ s = "nearing threshold" <=> (0 < r /\ 5 * r < l)
                    /\ s = "exceeded" <=> (r <= 0 /\ 5 * r < l)
                    /\ l > 0 => (s = "exceeded" <=> r <= 0)]_vars

\* The status of an untouched default budget (limit 0, nothing spent) was asked.
C22_Witness ==
    /\ response.op = "retrieve_category_budget_status"
    /\ response.status = 200
    /\ response.remaining_amount = 0
    /\ response.status_sent = "within limits"
    /\ \E b \in DOMAIN category_budgets :
          category_budgets[b].status = "active" /\ category_budgets[b].amount_limit = 0

\* C23: the only change any operation makes to an existing Notification row is
\* setting is_read from false to true: message and user_id never change and a
\* read row never becomes unread (a row may be deleted by the retention run).
C23_NotificationsOnlyBecomeRead ==
    [][/\ Len(notifications') >= Len(notifications)
       /\ \A i \in DOMAIN notifications :
             \/ notifications'[i] = notifications[i]
             \/ notifications'[i] = DeletedNotification
             \/ /\ notifications[i].is_read = FALSE
                /\ notifications'[i] = [notifications[i] EXCEPT !.is_read = TRUE]]_vars

\* Notifications of both users have been set to read, one user's after the
\* budget they were about was deactivated or deleted, and a later check has
\* written an unread one.
C23_Witness ==
    \E i, j, k \in DOMAIN notifications :
        /\ notifications[i].user_id = 1
        /\ notifications[i].is_read = TRUE
        /\ ActiveBudgets(1) = {}
        /\ notifications[j].user_id = 2
        /\ notifications[j].is_read = TRUE
        /\ j < k
        /\ notifications[k].user_id = 2
        /\ notifications[k].is_read = FALSE

\* The budgets of user u whose window holds the expense.
MatchingBudgets(u, expense) ==
    {b \in DOMAIN budgets : budgets[b].user_id = u /\ InWindow(budgets[b], expense)}

\* C24: get_budget_expense_mapping assigns each expense dated inside the window of
\* at least one of the user's budgets to exactly one budget, the matching budget
\* with the latest end_date, and each budget's total_expenses is the sum of the
\* amounts of the expenses assigned to it.
C24_ExpenseMappedToLatestBudget ==
    [][\A u \in users :
          get_budget_expense_mapping(u) /\ BudgetsByEndDate(u) # <<>>
             => /\ response'.status = 200
                /\ \A i \in DOMAIN expenses :
                      (expenses[i].user_id = u /\ MatchingBudgets(u, expenses[i]) # {})
                         => /\ response'.mapping[i] \in MatchingBudgets(u, expenses[i])
                            /\ \A b \in MatchingBudgets(u, expenses[i]) :
                                  budgets[b].end_date <= budgets[response'.mapping[i]].end_date
                /\ \A b \in DOMAIN response'.total_expenses :
                      response'.total_expenses[b] =
                          AmountOfSet({i \in DOMAIN response'.mapping : response'.mapping[i] = b})]_vars

\* The same with the crash on expense.name set aside: whenever the map is built,
\* each expense dated inside some window goes to the matching budget that ends last.
MappingPrefersLatestBudget ==
    \A u \in users : \A i \in DOMAIN ExpenseToBudgetMap(u) :
        \A b \in MatchingBudgets(u, expenses[i]) :
            budgets[b].end_date <= budgets[ExpenseToBudgetMap(u)[i]].end_date

\* No two active general budgets of one user have overlapping windows.
NoOverlappingActiveBudgets ==
    \A i \in DOMAIN budgets : \A j \in DOMAIN budgets :
        (i < j /\ budgets[i].user_id = budgets[j].user_id
               /\ budgets[i].status = "active" /\ budgets[j].status = "active")
            => ~OverlapsWindow(budgets[i], budgets[j].start_date, budgets[j].end_date)

\* C25: when two set_general_budget requests of one user with overlapping windows
\* interleave, each doing its overlap query before the other commits, at most one
\* of them succeeds: a request commits only if no active budget of the user
\* overlaps its window by then, and the active budgets never overlap.
C25_InterleavedSetBudgetKeepsNoOverlap ==
    [][\A r \in setting :
          set_general_budget_commit(r)
             => /\ \A i \in ActiveBudgets(r.user_id) :
                      ~OverlapsWindow(budgets[i], r.start_date, r.end_date)
                /\ NoOverlappingActiveBudgets']_vars

\* C26: a debt notification is answered at most once: once its debtor has
\* responded, by accepting or by rejecting, the notification no longer matches the
\* lookup of respond_debt_notification, so that every later request for it is
\* rejected with NotFound and a rejected debt is never accepted afterwards.
C26_DebtAnsweredAtMostOnce ==
    [][\A u \in users, n \in 1..MaxDebtNotifications, accept \in BOOLEAN :
          /\ respond_debt_notification(u, n, accept)
          /\ PendingDebtNotification(n) # 0
          /\ debt_notifications[n].debtor_id = u
          /\ CategoryByName(u, DebtName) # 0
          => ~(n \in DOMAIN debt_notifications' /\ debt_notifications'[n].status = FALSE)]_vars

\* C27: check_thresholds(user), queued by every expense creation, ends normally
\* when the user has no Alert row: it raises nothing and creates no Notification.
C27_CheckThresholdsWithoutAlert ==
    [][\A u \in users :
          (/\ check_thresholds(u)
           /\ <<"alerts.check_thresholds", u>> \in expense_tasks
           /\ \A i \in DOMAIN alerts : alerts[i].user_id # u)
             => /\ ~response'.raised
                /\ notifications' = notifications]_vars

C29_CreatedAtIsInsertionTime ==
    [][\A i \in DOMAIN notifications' :
          i \notin DOMAIN notifications => notifications'[i].created_at = today]_vars

\* C30: the duplicate lookup counts unread notifications only: when the user has
\* marked the exceedance notification as read and the budget is still exceeded by
\* the same amount, the next run of check_budget inserts a new unread
\* notification with the same message.
C30_ReadNotificationIsSentAgain ==
    [][\A u \in users :
          LET budget == First(ActiveBudgets(u))
              remaining_amount == RemainingAmount(budgets[budget], expenses)
              message == BudgetExceededMessage(budgets[budget].amount_limit, remaining_amount)
          IN  (/\ check_budget(u)
               /\ budget # 0
               /\ Exceeded(remaining_amount)
               /\ ExistingNotificationRead(notifications, u, message) # 0
               /\ ExistingNotification(notifications, u, message) = 0)
                 => /\ Len(notifications') = Len(notifications) + 1
                    /\ SubSeq(notifications', 1, Len(notifications)) = notifications
                    /\ notifications'[Len(notifications')].user_id = u
                    /\ notifications'[Len(notifications')].message = message
                    /\ notifications'[Len(notifications')].is_read = FALSE]_vars

\* A run of check_budget has just written the last row, unread, with the message
\* of an earlier row of the user that was marked as read, the budget being
\* exceeded by that amount still.
C30_Witness ==
    /\ response.op = "check_budget"
    /\ Len(notifications) >= 2
    /\ LET last == notifications[Len(notifications)]
           budget == First(ActiveBudgets(last.user_id))
       IN  /\ last.is_read = FALSE
           /\ budget # 0
           /\ last.message =
                 BudgetExceededMessage(budgets[budget].amount_limit,
                                       RemainingAmount(budgets[budget], expenses))
           /\ \E i \in 1..(Len(notifications) - 1) :
                 /\ notifications[i].user_id = last.user_id
                 /\ notifications[i].message = last.message
                 /\ notifications[i].is_read = TRUE
           /\ \A i \in 1..(Len(notifications) - 1) :
                 (notifications[i].user_id = last.user_id /\ notifications[i].message = last.message)
                    => notifications[i].is_read = TRUE

====
